---------------------------- MODULE Spec2Model ----------------------------
(* Model of the AI roadmap generation engine of SkillBridge                *)
(* (skillbridge_backend/roadmaps/integrations.py): RateLimiter,            *)
(* CostTracker, CircuitBreaker and OpenAIIntegration.generate_roadmap.     *)
(*                                                                         *)
(* Time is an integer clock `now` (time.time(), in seconds) advanced by    *)
(* Tick; the calendar date is the integer `today` advanced by NewDay.      *)
(* Money is counted in integer units of 0.1 dollar.                        *)
EXTENDS Integers, Sequences, FiniteSets, TLC

(* ----------------------------- parameters ------------------------------ *)
\* RateLimiter(max_calls, time_window), scaled down from (60, 60).
max_calls == 2
time_window == 3
\* CircuitBreaker(failure_threshold, timeout), scaled down from (5, 60).
failure_threshold == 2
timeout == 2
\* CostTracker.daily_limit, scaled down from 50.0 dollars, in units of 0.1.
daily_limit == 3
\* can_make_request's default estimated_cost (0.1 dollar), in units of 0.1.
DefaultEstimatedCost == 1
\* OPENAI_MAX_RETRIES (default 3) and OPENAI_RETRY_DELAY (default 1.0).
max_retries == 2
base_delay == 1

\* Horizon of the clock and of the calendar, and caps of the unit drivers.
MaxTime == 5
MaxDay == 1
MaxFailures == 4
MaxCost == 2
MaxUnitCost == 2
MaxRequests == 3

\* self.last_failure_time = None
NoTime == -1

\* Slots for generate_roadmap invocations on one engine, and cache keys. Spec
\* runs the invocations of the first slot, one after the other.
NumReq == 2
NumKeys == 1
Reqs == 1..NumReq
Keys == 1..NumKeys
\* Threads that call RateLimiter.allow_call on one limiter at the same time.
NumThr == 2
Thr == 1..NumThr
\* How many times each thread calls allow_call.
MaxThreadCalls == 2

VARIABLES
    now,              \* time.time()
    today,            \* datetime.now().date()
    rate_limiter,     \* OpenAIIntegration.rate_limiter
    cost_tracker,     \* OpenAIIntegration.cost_tracker
    circuit_breaker,  \* OpenAIIntegration.circuit_breaker
    cache,            \* django.core.cache.cache, by cache key
    client,           \* whether OpenAIIntegration.client is set
    req,              \* the generate_roadmap invocations: position and locals
    rl_hist,          \* history: what the rate limiter admitted and denied
    ct_hist,          \* history: the costs recorded in the ledger today
    thr,              \* threads inside RateLimiter.allow_call: position and locals
    last              \* history: the last operation, its caller and result

vars == <<now, today, rate_limiter, cost_tracker, circuit_breaker, cache, client,
          req, rl_hist, ct_hist, thr, last>>

Max2(a, b) == IF a >= b THEN a ELSE b

RECURSIVE SeqMin(_)
SeqMin(s) ==
    IF Len(s) = 1 THEN s[1]
    ELSE LET m == SeqMin(Tail(s)) IN IF s[1] <= m THEN s[1] ELSE m

(* ------------------------------ RateLimiter ---------------------------- *)
\* Mutant: a call exactly time_window old is kept.
InWindow_le(calls, t) == SelectSeq(calls, LAMBDA call_time : t - call_time <= time_window)

\* The list comprehension of allow_call: the calls still inside the window.
InWindow(calls, t) == SelectSeq(calls, LAMBDA call_time : t - call_time < time_window)

\* Mutant: the count is compared with <= max_calls.
allow_call_le(rl, t) ==
    LET kept == InWindow(rl.calls, t) IN
    IF Len(kept) <= max_calls
    THEN [rl |-> [calls |-> Append(kept, t)], ret |-> TRUE]
    ELSE [rl |-> [calls |-> kept], ret |-> FALSE]

\* RateLimiter.allow_call at time t: the new limiter and the returned value.
allow_call(rl, t) ==
    LET kept == InWindow(rl.calls, t) IN
    IF Len(kept) < max_calls
    THEN [rl |-> [calls |-> Append(kept, t)], ret |-> TRUE]
    ELSE [rl |-> [calls |-> kept], ret |-> FALSE]

\* Mutant: the operands of the subtraction are swapped.
time_until_next_call_swapped(rl, t) ==
    IF rl.calls = <<>> THEN 0
    ELSE Max2(0, (t - SeqMin(rl.calls)) - time_window)

\* RateLimiter.time_until_next_call at time t.
time_until_next_call(rl, t) ==
    IF rl.calls = <<>> THEN 0
    ELSE Max2(0, time_window - (t - SeqMin(rl.calls)))

(* ------------------------------ CostTracker ---------------------------- *)
\* Mutant: the counters are reset on an access of the same day too.
reset_if_new_day_ge(ct, d) ==
    IF d >= ct.last_reset
    THEN [current_cost |-> 0, request_count |-> 0, last_reset |-> d]
    ELSE ct

reset_if_new_day(ct, d) ==
    IF d > ct.last_reset
    THEN [current_cost |-> 0, request_count |-> 0, last_reset |-> d]
    ELSE ct

\* Mutant: the budget comparison is strict.
can_make_request_lt(ct, estimated_cost, d) ==
    LET c == reset_if_new_day(ct, d) IN
    [ct |-> c, ret |-> (c.current_cost + estimated_cost) < daily_limit]

can_make_request(ct, estimated_cost, d) ==
    LET c == reset_if_new_day(ct, d) IN
    [ct |-> c, ret |-> (c.current_cost + estimated_cost) <= daily_limit]

\* Mutant: the cost replaces the running total.
record_request_overwrite(ct, cost, d) ==
    LET c == reset_if_new_day(ct, d) IN
    [c EXCEPT !.current_cost = cost, !.request_count = @ + 1]

record_request(ct, cost, d) ==
    LET c == reset_if_new_day(ct, d) IN
    [c EXCEPT !.current_cost = @ + cost, !.request_count = @ + 1]

\* CostTracker.get_usage_stats on day d: the ledger afterwards and the
\* returned statistics (round(x, 4) leaves the exact amounts as they are;
\* cost_percentage is left out).
get_usage_stats(ct, d) ==
    LET c == reset_if_new_day(ct, d) IN
    [ct |-> c,
     ret |-> [current_cost |-> c.current_cost,
              daily_limit |-> daily_limit,
              remaining_budget |-> daily_limit - c.current_cost,
              request_count |-> c.request_count]]

(* ----------------------------- CircuitBreaker -------------------------- *)
\* Mutant: the timeout comparison is not strict.
can_execute_ge(cb, t) ==
    IF cb.state = "CLOSED" THEN [cb |-> cb, ret |-> TRUE]
    ELSE IF cb.state = "OPEN"
         THEN IF t - cb.last_failure_time >= timeout
              THEN [cb |-> [cb EXCEPT !.state = "HALF_OPEN"], ret |-> TRUE]
              ELSE [cb |-> cb, ret |-> FALSE]
         ELSE [cb |-> cb, ret |-> TRUE]

\* Mutant: a refused call refreshes last_failure_time.
can_execute_refresh(cb, t) ==
    IF cb.state = "CLOSED" THEN [cb |-> cb, ret |-> TRUE]
    ELSE IF cb.state = "OPEN"
         THEN IF t - cb.last_failure_time > timeout
              THEN [cb |-> [cb EXCEPT !.state = "HALF_OPEN"], ret |-> TRUE]
              ELSE [cb |-> [cb EXCEPT !.last_failure_time = t], ret |-> FALSE]
         ELSE [cb |-> cb, ret |-> TRUE]

can_execute(cb, t) ==
    IF cb.state = "CLOSED" THEN [cb |-> cb, ret |-> TRUE]
    ELSE IF cb.state = "OPEN"
         THEN IF t - cb.last_failure_time > timeout
              THEN [cb |-> [cb EXCEPT !.state = "HALF_OPEN"], ret |-> TRUE]
              ELSE [cb |-> cb, ret |-> FALSE]
         ELSE [cb |-> cb, ret |-> TRUE]

\* Mutant: a success closes the breaker and keeps the count.
record_success_keeps_count(cb) == [cb EXCEPT !.state = "CLOSED"]

record_success(cb) == [cb EXCEPT !.failure_count = 0, !.state = "CLOSED"]

\* Mutant: the breaker opens only above the threshold.
record_failure_gt(cb, t) ==
    LET n == cb.failure_count + 1 IN
    [failure_count |-> n,
     last_failure_time |-> t,
     state |-> IF n > failure_threshold THEN "OPEN" ELSE cb.state]

\* Mutant: the breaker opens only when the count equals the threshold.
record_failure_eq(cb, t) ==
    LET n == cb.failure_count + 1 IN
    [failure_count |-> n,
     last_failure_time |-> t,
     state |-> IF n = failure_threshold THEN "OPEN" ELSE cb.state]

record_failure(cb, t) ==
    LET n == cb.failure_count + 1 IN
    [failure_count |-> n,
     last_failure_time |-> t,
     state |-> IF n >= failure_threshold THEN "OPEN" ELSE cb.state]

(* ------------------------ response parsing and cost ------------------- *)
\* What response.choices[0].message.content can be: a JSON roadmap that
\* validates, JSON that fails validation, JSON whose module fields have
\* unexpected types, a numbered or bulleted text, text without JSON or list
\* items (such as ""), or None.
Contents == {"json_valid", "json_invalid", "json_badtypes", "text_list", "empty", "none"}

\* _parse_and_validate_response: which tier built the modules, or "None"
\* when the outer except returns None (re.findall on None, or iterating a
\* module field that is not a list or a mapping).
parse_and_validate_response(content) ==
    CASE content = "json_valid" -> "structured"
      [] content = "json_badtypes" -> "None"
      [] content = "none" -> "None"
      [] content = "json_invalid" -> "default"
      [] content = "text_list" -> "heuristic"
      [] OTHER -> "default"

\* The errors client.chat.completions.create can raise, by category.
Errors == {"rate_limit", "timeout", "api_error", "unknown"}

\* Mutant: there is no `except Exception` clause.
ExceptClause_no_generic(err) ==
    CASE err = "rate_limit" -> "RateLimitError"
      [] err = "timeout" -> "APITimeoutError"
      [] err = "api_error" -> "APIError"
      [] OTHER -> "propagate"

\* The except clause of generate_roadmap that catches an error.
ExceptClause(err) ==
    CASE err = "rate_limit" -> "RateLimitError"
      [] err = "timeout" -> "APITimeoutError"
      [] err = "api_error" -> "APIError"
      [] OTHER -> "Exception"

\* Mutant: every clause records a failure on every attempt.
RecordsFailure_always(clause, attempt) == clause # "propagate" \/ attempt >= 0

\* Whether the clause calls circuit_breaker.record_failure() on this attempt.
RecordsFailure(clause, attempt) ==
    IF clause \in {"RateLimitError", "APITimeoutError"}
    THEN ~(attempt < max_retries)
    ELSE TRUE

\* Whether the clause sleeps and continues with the next attempt.
Retries(clause, attempt) ==
    IF clause = "Exception" THEN ~(attempt = max_retries) ELSE attempt < max_retries

RECURSIVE Pow2(_)
Pow2(n) == IF n = 0 THEN 1 ELSE 2 * Pow2(n - 1)

\* delay = base_delay * (2 ** attempt)
BackoffDelay(attempt) == base_delay * Pow2(attempt)

(* ------------------------------- roadmaps ------------------------------ *)
NoRoadmap == [generated_by |-> "none", cost |-> 0, source |-> "none"]

\* Mutant: the fallback result carries the AI label.
mock_roadmap_labelled_openai ==
    [generated_by |-> "openai", cost |-> 0, source |-> "catalog"]

\* Mutant: the fallback result carries a cost.
mock_roadmap_costed ==
    [generated_by |-> "enhanced_mock_generator", cost |-> 1, source |-> "catalog"]

\* _generate_enhanced_mock_roadmap: the FallbackGenerator's result.
generate_enhanced_mock_roadmap ==
    [generated_by |-> "enhanced_mock_generator", cost |-> 0, source |-> "catalog"]

\* Mutant: the roadmap carries cost 0 whatever was recorded.
AiRoadmap_free(tier, cost) == [generated_by |-> "openai", cost |-> 0, source |-> tier]

\* roadmap_data after roadmap_data.update({... 'generated_by': 'openai', 'cost': ...}).
AiRoadmap(tier, cost) == [generated_by |-> "openai", cost |-> cost, source |-> tier]

(* ------------------------------ construction --------------------------- *)
NewRateLimiter == [calls |-> <<>>]
NewCostTracker(d) == [current_cost |-> 0, request_count |-> 0, last_reset |-> d]
NewCircuitBreaker == [failure_count |-> 0, last_failure_time |-> NoTime, state |-> "CLOSED"]

NewReq == [pc |-> "idle", key |-> 1, use_cache |-> FALSE, attempt |-> 0, wake |-> 0,
           content |-> "none", n_calls |-> 0, n_ok |-> 0,
           result |-> NoRoadmap, ended |-> "none", cancelled |-> FALSE]

\* History of the ledger: the costs recorded since the last access that found
\* a new day, the day of that access, and how many such accesses there were.
NewLedgerHist(d) == [recorded |-> <<>>, day |-> d, resets |-> 0]

\* The history after an access to the ledger on day d.
HistAccess(h, d) ==
    IF d > h.day THEN [recorded |-> <<>>, day |-> d, resets |-> h.resets + 1] ELSE h

\* The history after record_request(cost) on day d.
HistRecord(h, cost, d) ==
    LET a == HistAccess(h, d) IN [a EXCEPT !.recorded = Append(@, cost)]

\* A thread outside allow_call.
NewThread == [pc |-> "idle", now |-> 0, kept |-> <<>>, n |-> 0]

\* The thread has returned from its n-th call.
ThreadReturned(th) == [NewThread EXCEPT !.n = th.n]

\* started: the times, within the trailing window, at which a completion
\* call was started, kept when the traffic is observed.
NewHist == [admitted |-> <<>>, denied |-> FALSE, after_denial |-> FALSE,
            wait |-> 0, wait_at |-> NoTime, resumed |-> FALSE,
            observed |-> FALSE, started |-> <<>>]

Op(name, by, ret, pre) == [op |-> name, by |-> by, ret |-> ret, at |-> now, pre |-> pre]

InitShared ==
    /\ now = 0
    /\ today = 0
    /\ rate_limiter = NewRateLimiter
    /\ cost_tracker = NewCostTracker(0)
    /\ circuit_breaker = NewCircuitBreaker
    /\ cache = [k \in Keys |-> NoRoadmap]
    /\ req \in {[r \in Reqs |-> IF r <= n THEN NewReq ELSE [NewReq EXCEPT !.pc = "off"]] :
                  n \in {1}}
    /\ rl_hist = NewHist
    /\ ct_hist = NewLedgerHist(0)
    /\ thr = [t \in Thr |-> NewThread]
    /\ last = [op |-> "init", by |-> 0, ret |-> FALSE, at |-> 0, pre |-> <<>>]

\* OpenAIIntegration.__init__: the client is set or left None.
Init == InitShared /\ client \in BOOLEAN

\* The components constructed alone, as the unit tests do.
InitUnit == InitShared /\ client = FALSE

\* History of the limiter after an allow_call at t that returned r.
\* after_denial: the call is admitted and the call before it was denied;
\* resumed: the call is admitted exactly the returned wait after a denial.
HistAllow(h, r, t) ==
    [admitted |-> IF r.ret THEN Append(h.admitted, t) ELSE h.admitted,
     denied |-> ~r.ret,
     after_denial |-> r.ret /\ h.denied,
     wait |-> 0, wait_at |-> NoTime,
     resumed |-> r.ret /\ h.wait_at # NoTime /\ t = h.wait_at + h.wait,
     observed |-> h.observed, started |-> h.started]

\* History of the limiter after time_until_next_call at t returned d: the
\* wait is remembered when the last allow_call was denied.
HistWait(h, d, t, afterDenial) ==
    IF afterDenial THEN [h EXCEPT !.wait = d, !.wait_at = t] ELSE h

\* The clock advances (time.time() is later at the next read).
Tick ==
    /\ now < MaxTime
    /\ now' = now + 1
    /\ rl_hist' = [rl_hist EXCEPT
                      !.admitted = SelectSeq(@, LAMBDA a : (now + 1) - a < time_window),
                      !.started = SelectSeq(@, LAMBDA a : (now + 1) - a < time_window)]
    /\ last' = [op |-> "tick", by |-> 0, ret |-> FALSE, at |-> now + 1, pre |-> <<>>]
    /\ UNCHANGED <<today, rate_limiter, cost_tracker, circuit_breaker, cache, client, req, ct_hist, thr>>

\* Midnight passes (datetime.now().date() is later at the next read).
NewDay ==
    /\ today < MaxDay
    /\ today' = today + 1
    /\ last' = [op |-> "new_day", by |-> 0, ret |-> FALSE, at |-> now, pre |-> <<>>]
    /\ UNCHANGED <<now, rate_limiter, cost_tracker, circuit_breaker, cache, client, req, rl_hist, ct_hist, thr>>

(* --------------- CircuitBreaker driven directly by a caller ------------ *)
CB_can_execute ==
    LET r == can_execute(circuit_breaker, now) IN
    /\ circuit_breaker' = r.cb
    /\ last' = Op("can_execute", 0, r.ret, circuit_breaker)
    /\ UNCHANGED <<now, today, rate_limiter, cost_tracker, cache, client, req, rl_hist, ct_hist, thr>>

CB_record_success ==
    /\ circuit_breaker' = record_success(circuit_breaker)
    /\ last' = Op("record_success", 0, FALSE, circuit_breaker)
    /\ UNCHANGED <<now, today, rate_limiter, cost_tracker, cache, client, req, rl_hist, ct_hist, thr>>

CB_record_failure ==
    /\ circuit_breaker.failure_count < MaxFailures
    /\ circuit_breaker' = record_failure(circuit_breaker, now)
    /\ last' = Op("record_failure", 0, FALSE, circuit_breaker)
    /\ UNCHANGED <<now, today, rate_limiter, cost_tracker, cache, client, req, rl_hist, ct_hist, thr>>

BreakerNext == CB_can_execute \/ CB_record_success \/ CB_record_failure \/ Tick

SpecBreaker == InitUnit /\ [][BreakerNext]_vars

(* ---------------- RateLimiter driven directly by a caller -------------- *)
RL_allow_call ==
    LET r == allow_call(rate_limiter, now) IN
    /\ rate_limiter' = r.rl
    /\ rl_hist' = HistAllow(rl_hist, r, now)
    /\ last' = Op("allow_call", 0, r.ret, rate_limiter)
    /\ UNCHANGED <<now, today, cost_tracker, circuit_breaker, cache, client, req, ct_hist, thr>>

RL_time_until_next_call ==
    LET d == time_until_next_call(rate_limiter, now) IN
    /\ rl_hist' = HistWait(rl_hist, d, now, rl_hist.denied)
    /\ last' = Op("time_until_next_call", 0, d, rate_limiter)
    /\ UNCHANGED <<now, today, rate_limiter, cost_tracker, circuit_breaker, cache, client, req, ct_hist, thr>>

LimiterNext == RL_allow_call \/ RL_time_until_next_call \/ Tick

SpecLimiter == InitUnit /\ [][LimiterNext]_vars

(* ------------- RateLimiter.allow_call run by concurrent threads -------- *)
\* allow_call statement by statement; a thread switch can fall between any
\* two of these steps.

\* Line 25: now = time.time().
AC_read_time(t) ==
    /\ thr[t].pc = "idle"
    /\ thr[t].n < MaxThreadCalls
    /\ thr' = [thr EXCEPT ![t] = [pc |-> "filter", now |-> now, kept |-> <<>>,
                                  n |-> thr[t].n + 1]]
    /\ last' = Op("allow_call_step", 0, FALSE, <<>>)
    /\ UNCHANGED <<now, today, rate_limiter, cost_tracker, circuit_breaker, cache, client, req, rl_hist, ct_hist>>

\* Line 28, right-hand side: the list comprehension over self.calls.
AC_filter(t) ==
    /\ thr[t].pc = "filter"
    /\ thr' = [thr EXCEPT ![t].pc = "assign",
                          ![t].kept = InWindow(rate_limiter.calls, thr[t].now)]
    /\ last' = Op("allow_call_step", 0, FALSE, <<>>)
    /\ UNCHANGED <<now, today, rate_limiter, cost_tracker, circuit_breaker, cache, client, req, rl_hist, ct_hist>>

\* Line 28, the assignment: self.calls = <the new list>.
AC_assign(t) ==
    /\ thr[t].pc = "assign"
    /\ rate_limiter' = [calls |-> thr[t].kept]
    /\ thr' = [thr EXCEPT ![t].pc = "check", ![t].kept = <<>>]
    /\ last' = Op("allow_call_step", 0, FALSE, <<>>)
    /\ UNCHANGED <<now, today, cost_tracker, circuit_breaker, cache, client, req, rl_hist, ct_hist>>

\* Lines 31 and 35: the test of len(self.calls); return False.
AC_check(t) ==
    /\ thr[t].pc = "check"
    /\ LET ok == Len(rate_limiter.calls) < max_calls IN
          /\ thr' = [thr EXCEPT ![t] = IF ok THEN [@ EXCEPT !.pc = "append"]
                                        ELSE ThreadReturned(@)]
          /\ rl_hist' = IF ok THEN rl_hist
                        ELSE HistAllow(rl_hist, [ret |-> FALSE], thr[t].now)
          /\ last' = Op("allow_call_step", 0, FALSE, <<>>)
    /\ UNCHANGED <<now, today, rate_limiter, cost_tracker, circuit_breaker, cache, client, req, ct_hist>>

\* Lines 32-33: self.calls.append(now); return True.
AC_append(t) ==
    /\ thr[t].pc = "append"
    /\ rate_limiter' = [calls |-> Append(rate_limiter.calls, thr[t].now)]
    /\ rl_hist' = HistAllow(rl_hist, [ret |-> TRUE], thr[t].now)
    /\ thr' = [thr EXCEPT ![t] = ThreadReturned(@)]
    /\ last' = Op("allow_call_step", 0, FALSE, <<>>)
    /\ UNCHANGED <<now, today, cost_tracker, circuit_breaker, cache, client, req, ct_hist>>

AllowCallStep(t) ==
    \/ AC_read_time(t) \/ AC_filter(t) \/ AC_assign(t) \/ AC_check(t) \/ AC_append(t)

LimiterConcNext == (\E t \in Thr : AllowCallStep(t)) \/ Tick

SpecLimiterConc == InitUnit /\ [][LimiterConcNext]_vars

(* ---------------- CostTracker driven directly by a caller -------------- *)
CT_can_make_request ==
    \E estimated_cost \in 0..(daily_limit + 1) :
        LET r == can_make_request(cost_tracker, estimated_cost, today) IN
        /\ cost_tracker' = r.ct
        /\ ct_hist' = HistAccess(ct_hist, today)
        /\ last' = Op("can_make_request", estimated_cost, r.ret, cost_tracker)
        /\ UNCHANGED <<now, today, rate_limiter, circuit_breaker, cache, client, req, rl_hist, thr>>

CT_record_request ==
    \E cost \in 0..MaxUnitCost :
        /\ cost_tracker.request_count < MaxRequests
        /\ cost_tracker' = record_request(cost_tracker, cost, today)
        /\ ct_hist' = HistRecord(ct_hist, cost, today)
        /\ last' = Op("record_request", cost, FALSE, cost_tracker)
        /\ UNCHANGED <<now, today, rate_limiter, circuit_breaker, cache, client, req, rl_hist, thr>>

CT_get_usage_stats ==
    LET r == get_usage_stats(cost_tracker, today) IN
    /\ cost_tracker' = r.ct
    /\ ct_hist' = HistAccess(ct_hist, today)
    /\ last' = Op("get_usage_stats", 0, r.ret, cost_tracker)
    /\ UNCHANGED <<now, today, rate_limiter, circuit_breaker, cache, client, req, rl_hist, thr>>

CostNext == CT_can_make_request \/ CT_record_request \/ CT_get_usage_stats \/ NewDay

SpecCost == InitUnit /\ [][CostNext]_vars

(* -------------------- OpenAIIntegration.generate_roadmap ---------------- *)
\* Each invocation r runs the method one statement group at a time; the
\* calls on the shared limiter, ledger, breaker and cache are single steps,
\* and the sleeps and the completion-service call let time pass and the
\* other invocations run.

\* The method ends: its locals are gone, the caller holds the result.
Ended(q, roadmap, how) ==
    [NewReq EXCEPT !.pc = "done", !.key = q.key, !.use_cache = q.use_cache,
                   !.n_calls = q.n_calls, !.n_ok = q.n_ok,
                   !.result = roadmap, !.ended = how]

\* Mutant: the returned roadmap is given cost 0.
Returned_recosted(q, roadmap) == Ended(q, [roadmap EXCEPT !.cost = 0], "returned")

Returned(q, roadmap) == Ended(q, roadmap, "returned")

\* An exception reaches an except clause of the retry loop on attempt
\* q.attempt: the invocation and the breaker afterwards.
AfterError(q, cb, clause, t) ==
    IF clause = "propagate"
    THEN [q |-> Ended(q, NoRoadmap, "raised"), cb |-> cb]
    ELSE [q |-> IF Retries(clause, q.attempt)
                THEN [q EXCEPT !.pc = "backoff", !.wake = t + BackoffDelay(q.attempt)]
                ELSE Returned(q, generate_enhanced_mock_roadmap),
          cb |-> IF RecordsFailure(clause, q.attempt) THEN record_failure(cb, t) ELSE cb]

\* Mutant: the cache is looked up whatever use_cache is.
Start_always_reads(r) ==
    /\ req[r].pc \in {"idle", "done"}
    /\ \E k \in Keys, uc \in BOOLEAN :
          LET q == [NewReq EXCEPT !.key = k, !.use_cache = uc]
              cached_result == cache[k]
          IN  /\ req' = [req EXCEPT ![r] =
                            IF cached_result # NoRoadmap
                            THEN Returned(q, cached_result)
                            ELSE [q EXCEPT !.pc = "rate_limit"]]
              /\ last' = Op("start", r, cached_result # NoRoadmap, <<>>)
    /\ UNCHANGED <<now, today, rate_limiter, cost_tracker, circuit_breaker, cache, client, rl_hist, ct_hist, thr>>

\* Lines 163-171: the cache key and the cache lookup.
Start(r) ==
    /\ req[r].pc \in {"idle", "done"}
    /\ \E k \in Keys, uc \in BOOLEAN :
          LET q == [NewReq EXCEPT !.key = k, !.use_cache = uc]
              cached_result == cache[k]
          IN  /\ req' = [req EXCEPT ![r] =
                            IF uc /\ cached_result # NoRoadmap
                            THEN Returned(q, cached_result)
                            ELSE [q EXCEPT !.pc = "rate_limit"]]
              /\ last' = Op("start", r, uc /\ cached_result # NoRoadmap, <<>>)
    /\ UNCHANGED <<now, today, rate_limiter, cost_tracker, circuit_breaker, cache, client, rl_hist, ct_hist, thr>>

\* Line 174: self.rate_limiter.allow_call().
RateLimitCheck(r) ==
    /\ req[r].pc = "rate_limit"
    /\ LET a == allow_call(rate_limiter, now) IN
          /\ rate_limiter' = a.rl
          /\ rl_hist' = HistAllow(rl_hist, a, now)
          /\ req' = [req EXCEPT ![r].pc = IF a.ret THEN "cost" ELSE "throttle"]
          /\ last' = Op("allow_call", r, a.ret, <<>>)
    /\ UNCHANGED <<now, today, cost_tracker, circuit_breaker, cache, client, ct_hist, thr>>

\* Lines 175-177: wait_time = time_until_next_call(); time.sleep(wait_time) begins.
\* The wait is kept in req[r].wake, the time at which the sleep returns.
ThrottleWait(r) ==
    /\ req[r].pc = "throttle"
    /\ LET wait_time == time_until_next_call(rate_limiter, now) IN
          /\ req' = [req EXCEPT ![r].pc = "throttle_sleep", ![r].wake = now + wait_time]
          /\ rl_hist' = HistWait(rl_hist, wait_time, now, FALSE)
          /\ last' = Op("time_until_next_call", r, FALSE, <<>>)
    /\ UNCHANGED <<now, today, rate_limiter, cost_tracker, circuit_breaker, cache, client, ct_hist, thr>>

\* Line 177: time.sleep(wait_time) returns.
ThrottleWake(r) ==
    /\ req[r].pc = "throttle_sleep"
    /\ now >= req[r].wake
    /\ req' = [req EXCEPT ![r].pc = "cost", ![r].wake = 0]
    /\ last' = Op("throttle_wake", r, FALSE, <<>>)
    /\ UNCHANGED <<now, today, rate_limiter, cost_tracker, circuit_breaker, cache, client, rl_hist, ct_hist, thr>>

\* Mutant: a refused budget check does not end the invocation.
CostCheck_no_stop(r) ==
    /\ req[r].pc = "cost"
    /\ LET c == can_make_request(cost_tracker, DefaultEstimatedCost, today) IN
          /\ cost_tracker' = c.ct
          /\ ct_hist' = HistAccess(ct_hist, today)
          /\ req' = [req EXCEPT ![r].pc = "breaker"]
          /\ last' = Op("can_make_request", r, c.ret, <<>>)
    /\ UNCHANGED <<now, today, rate_limiter, circuit_breaker, cache, client, rl_hist, thr>>

\* Lines 179-181: the budget check.
CostCheck(r) ==
    /\ req[r].pc = "cost"
    /\ LET c == can_make_request(cost_tracker, DefaultEstimatedCost, today) IN
          /\ cost_tracker' = c.ct
          /\ ct_hist' = HistAccess(ct_hist, today)
          /\ req' = [req EXCEPT ![r] =
                        IF c.ret THEN [@ EXCEPT !.pc = "breaker"]
                        ELSE Returned(@, generate_enhanced_mock_roadmap)]
          /\ last' = Op("can_make_request", r, c.ret, <<>>)
    /\ UNCHANGED <<now, today, rate_limiter, circuit_breaker, cache, client, rl_hist, thr>>

\* Lines 183-194: the breaker check, the client check, the loop is entered.
BreakerCheck(r) ==
    /\ req[r].pc = "breaker"
    /\ LET b == can_execute(circuit_breaker, now) IN
          /\ circuit_breaker' = b.cb
          /\ req' = [req EXCEPT ![r] =
                        IF b.ret /\ client THEN [@ EXCEPT !.pc = "call", !.attempt = 0]
                        ELSE Returned(@, generate_enhanced_mock_roadmap)]
          /\ last' = Op("can_execute", r, b.ret, <<>>)
    /\ UNCHANGED <<now, today, rate_limiter, cost_tracker, cache, client, rl_hist, ct_hist, thr>>

\* Lines 196-220: the attempt starts, client.chat.completions.create is called.
CallStart(r) ==
    /\ req[r].pc = "call"
    /\ req' = [req EXCEPT ![r].pc = "inflight", ![r].n_calls = @ + 1]
    /\ rl_hist' = [rl_hist EXCEPT !.started = IF rl_hist.observed THEN Append(@, now) ELSE @]
    /\ last' = Op("call", r, FALSE, <<>>)
    /\ UNCHANGED <<now, today, rate_limiter, cost_tracker, circuit_breaker, cache, client, ct_hist, thr>>

\* Lines 258-298: the call raises and an except clause handles it.
CallRaises(r) ==
    /\ req[r].pc = "inflight"
    /\ \E err \in Errors :
          LET e == AfterError(req[r], circuit_breaker, ExceptClause(err), now) IN
          /\ req' = [req EXCEPT ![r] = e.q]
          /\ circuit_breaker' = e.cb
          /\ last' = Op("raise", r, err, <<>>)
    /\ UNCHANGED <<now, today, rate_limiter, cost_tracker, cache, client, rl_hist, ct_hist, thr>>

\* Lines 203-223: the call returns a response, record_success().
CallReturns(r) ==
    /\ req[r].pc = "inflight"
    /\ \E content \in Contents :
          req' = [req EXCEPT ![r].pc = "parse", ![r].content = content, ![r].n_ok = @ + 1]
    /\ circuit_breaker' = record_success(circuit_breaker)
    /\ last' = Op("record_success", r, FALSE, <<>>)
    /\ UNCHANGED <<now, today, rate_limiter, cost_tracker, cache, client, rl_hist, ct_hist, thr>>

\* Lines 225-256 (and 290-298): the response is parsed; a roadmap is costed,
\* cached and returned, or "Failed to parse response" is raised and caught.
ParseResponse(r) ==
    /\ req[r].pc = "parse"
    /\ LET tier == parse_and_validate_response(req[r].content)
           e == AfterError(req[r], circuit_breaker, ExceptClause("parse"), now)
       IN  IF tier # "None"
           THEN \E estimated_cost \in 1..MaxCost :
                  LET roadmap_data == AiRoadmap(tier, estimated_cost) IN
                  /\ cost_tracker' = record_request(cost_tracker, estimated_cost, today)
                  /\ ct_hist' = HistRecord(ct_hist, estimated_cost, today)
                  /\ cache' = IF req[r].use_cache
                              THEN [cache EXCEPT ![req[r].key] = roadmap_data]
                              ELSE cache
                  /\ req' = [req EXCEPT ![r] = Returned(@, roadmap_data)]
                  /\ UNCHANGED circuit_breaker
           ELSE /\ req' = [req EXCEPT ![r] = e.q]
                /\ circuit_breaker' = e.cb
                /\ UNCHANGED <<cost_tracker, cache, ct_hist, thr>>
    /\ last' = Op("parse", r, FALSE, <<>>)
    /\ UNCHANGED <<now, today, rate_limiter, client, rl_hist, thr>>

\* time.sleep(delay) returns and `continue` takes the next value of
\* range(max_retries + 1); an exhausted range ends the method without a return.
BackoffWake(r) ==
    /\ req[r].pc = "backoff"
    /\ now >= req[r].wake
    /\ req' = [req EXCEPT ![r] =
                  IF @.attempt + 1 < max_retries + 1
                  THEN [@ EXCEPT !.pc = "call", !.attempt = @ + 1, !.wake = 0]
                  ELSE Ended(@, NoRoadmap, "returned_none")]
    /\ last' = Op("backoff_wake", r, FALSE, <<>>)
    /\ UNCHANGED <<now, today, rate_limiter, cost_tracker, circuit_breaker, cache, client, rl_hist, ct_hist, thr>>

\* OpenAIIntegration.clear_cache.
ClearCache ==
    /\ cache # [k \in Keys |-> NoRoadmap]
    /\ cache' = [k \in Keys |-> NoRoadmap]
    /\ last' = Op("clear_cache", 0, FALSE, <<>>)
    /\ UNCHANGED <<now, today, rate_limiter, cost_tracker, circuit_breaker, client, req, rl_hist, ct_hist, thr>>

Step(r) ==
    \/ Start(r) \/ RateLimitCheck(r) \/ ThrottleWait(r) \/ ThrottleWake(r)
    \/ CostCheck(r) \/ BreakerCheck(r) \/ CallStart(r) \/ CallRaises(r)
    \/ CallReturns(r) \/ ParseResponse(r) \/ BackoffWake(r)

Next == (\E r \in Reqs : Step(r)) \/ Tick \/ NewDay \/ ClearCache

Spec == Init /\ [][Next]_vars

(* ------------------------- _generate_cache_key ------------------------- *)
\* A string is its lower-case stripped text, whether its first letter is a
\* capital, and whether it has surrounding whitespace.
Text(base, cap, pad) == [base |-> base, cap |-> cap, pad |-> pad]

\* str.lower() and str.strip().
lower(x) == [x EXCEPT !.cap = FALSE]
strip(x) == [x EXCEPT !.pad = FALSE]

\* The first letter of each text used, as its place in the alphabet.
Letter(base) ==
    CASE base = "beginner" -> 2
      [] base = "go" -> 7
      [] base = "job" -> 10
      [] base = "lagos" -> 12
      [] base = "part-time" -> 16
      [] base = "python" -> 16
      [] OTHER -> 26

\* Python's order of str, as a number: the code point of the first
\* character, then of the second (the texts used differ there at the
\* latest): ' ' is 32, 'A' is 65, 'a' is 97.
StrOrd(x) ==
    LET c == (IF x.cap THEN 64 ELSE 96) + Letter(x.base) IN
    IF x.pad THEN 32 * 256 + c ELSE c * 256

\* sorted(list): insertion of each element into the sorted rest.
RECURSIVE SortedInsert(_, _)
SortedInsert(x, q) ==
    IF q = <<>> THEN <<x>>
    ELSE IF StrOrd(x) <= StrOrd(q[1]) THEN <<x>> \o q
    ELSE <<q[1]>> \o SortedInsert(x, Tail(q))

RECURSIVE sorted(_)
sorted(q) == IF q = <<>> THEN <<>> ELSE SortedInsert(q[1], sorted(Tail(q)))

\* _generate_cache_key: cache_data; json.dumps(sort_keys=True) and the MD5
\* digest encode it one to one (digest collisions aside).
generate_cache_key(domain, skill_level, time_availability, user_context) ==
    [domain |-> strip(lower(domain)),
     skill_level |-> strip(lower(skill_level)),
     time_availability |-> strip(lower(time_availability)),
     user_skills |-> sorted(user_context.skills),
     learning_goals |-> sorted(user_context.learning_goals),
     location |-> strip(lower(user_context.location))]

\* The longest skills and learning_goals lists of the requests examined.
MaxSkills == 2
MaxGoals == 1

SeqsUpTo(S, n) == UNION {[1..k -> S] : k \in 0..n}

\* A text as typed in two ways: plain, and capitalised with whitespace.
Typed(base) == {Text(base, FALSE, FALSE), Text(base, TRUE, TRUE)}

SkillTexts == {Text("go", FALSE, FALSE), Text("python", FALSE, FALSE),
               Text("python", TRUE, FALSE), Text("python", FALSE, TRUE)}

GoalTexts == {Text("job", FALSE, FALSE), Text("job", TRUE, FALSE)}

\* The arguments of generate_roadmap that enter the key.
Requests ==
    [domain : Typed("python"),
     skill_level : Typed("beginner"),
     time_availability : Typed("part-time"),
     user_context : [skills : SeqsUpTo(SkillTexts, MaxSkills),
                     learning_goals : SeqsUpTo(GoalTexts, MaxGoals),
                     location : Typed("lagos")]]

CacheKeyOf(a) ==
    generate_cache_key(a.domain, a.skill_level, a.time_availability, a.user_context)

\* The keys of two requests are computed.
CacheKeys ==
    /\ last.op = "init"
    /\ \E a, b \in Requests :
          last' = [op |-> "cache_key", by |-> <<a, b>>,
                   ret |-> <<CacheKeyOf(a), CacheKeyOf(b)>>, at |-> now, pre |-> <<>>]
    /\ UNCHANGED <<now, today, rate_limiter, cost_tracker, circuit_breaker, cache, client, req, rl_hist, ct_hist, thr>>

SpecKey == InitUnit /\ [][CacheKeys]_vars

(* ------------- concurrent generate_roadmap calls on one engine --------- *)
\* The engine has served `prior` earlier requests of cost 1 at time 0, each
\* with one completion call, and every slot is about to run one invocation.
InitEngine(observed) ==
    \E prior \in 0..(daily_limit - 1) :
        LET costs == [i \in 1..prior |-> 1]
            calls == [i \in 1..prior |-> 0]
        IN  /\ now = 0
            /\ today = 0
            /\ rate_limiter = [calls |-> calls]
            /\ cost_tracker = [current_cost |-> prior, request_count |-> prior,
                               last_reset |-> 0]
            /\ circuit_breaker = NewCircuitBreaker
            /\ cache = [k \in Keys |-> NoRoadmap]
            /\ client = TRUE
            /\ req = [r \in Reqs |-> NewReq]
            /\ rl_hist = [NewHist EXCEPT !.admitted = calls, !.observed = observed,
                                         !.started = IF observed THEN calls ELSE <<>>]
            /\ ct_hist = [NewLedgerHist(0) EXCEPT !.recorded = costs]
            /\ thr = [t \in Thr |-> NewThread]
            /\ last = [op |-> "init", by |-> 0, ret |-> FALSE, at |-> 0, pre |-> <<>>]

InitConc == InitEngine(FALSE)

\* Each slot runs one invocation.
StartOnce(r) == req[r].pc = "idle" /\ Start(r)

StepOnce(r) ==
    \/ StartOnce(r) \/ RateLimitCheck(r) \/ ThrottleWait(r) \/ ThrottleWake(r)
    \/ CostCheck(r) \/ BreakerCheck(r) \/ CallStart(r) \/ CallRaises(r)
    \/ CallReturns(r) \/ ParseResponse(r) \/ BackoffWake(r)

\* Time passes while an invocation sleeps.
SleepTick ==
    /\ \E r \in Reqs : req[r].pc \in {"throttle_sleep", "backoff"} /\ now < req[r].wake
    /\ Tick

ConcNext == (\E r \in Reqs : StepOnce(r)) \/ SleepTick

SpecConc == InitConc /\ [][ConcNext]_vars


(* ================================ claims =============================== *)

\* The longest sleep of generate_roadmap: the throttle wait or the last backoff.
SleepBound == Max2(time_window, BackoffDelay(max_retries))

PcRank(pc) ==
    CASE pc = "rate_limit" -> 8
      [] pc = "throttle" -> 7
      [] pc = "throttle_sleep" -> 6
      [] pc = "cost" -> 5
      [] pc = "breaker" -> 4
      [] pc = "call" -> 3
      [] pc = "inflight" -> 2
      [] pc = "parse" -> 1
      [] pc = "backoff" -> 0
      [] OTHER -> 0

\* A measure of what an invocation still has to do: the attempts left, then
\* the position inside the attempt.
Rank(q) ==
    IF q.pc \in {"idle", "off", "done"} THEN 0
    ELSE IF PcRank(q.pc) > 3 THEN 4 * (max_retries + 2) + PcRank(q.pc)
    ELSE 4 * (max_retries + 1 - q.attempt) + PcRank(q.pc)

Running(q) == q.pc \notin {"idle", "off", "done"}

C1_Returns(r) ==
    req[r].pc = "done" => (req[r].ended = "returned" /\ req[r].result # NoRoadmap)

C1_NotStuck(r) ==
    Running(req[r]) =>
        \/ ENABLED Step(r)
        \/ /\ req[r].pc \in {"throttle_sleep", "backoff"}
           /\ req[r].wake - now <= SleepBound

C1_Decreases(r) ==
    (Running(req[r]) /\ req'[r] # req[r]) => Rank(req'[r]) < Rank(req[r])

\* C1: every invocation of generate_roadmap ends by returning a roadmap: when
\* it has ended it has returned (not raised, not fallen out of the loop) a
\* roadmap; while it runs it can always take its next step, or is in a sleep
\* of bounded length; and each of its steps decreases a natural-number
\* measure, so it takes finitely many steps. This holds whatever the
\* completion service answers and in every state of the limiter, the ledger,
\* the breaker and the cache.
C1_TotalContract ==
    /\ [](\A r \in Reqs : C1_Returns(r) /\ C1_NotStuck(r))
    /\ [][\A r \in Reqs : C1_Decreases(r)]_vars

\* C1 witness: an invocation whose last attempt raised an unknown error has
\* ended with a returned roadmap.
C1_Witness ==
    /\ last.op = "raise"
    /\ last.ret = "unknown"
    /\ req[last.by].pc = "done"
    /\ req[last.by].n_calls = max_retries + 1
    /\ req[last.by].ended = "returned"

\* C2: an invocation that called the completion service and saw every call
\* fail returns the FallbackGenerator's roadmap: generated_by is not the AI
\* label and the cost is 0.
C2_AllCallsFailGivesFallback ==
    \A r \in Reqs :
        (req[r].pc = "done" /\ req[r].n_calls > 0 /\ req[r].n_ok = 0) =>
            /\ req[r].result.generated_by = "enhanced_mock_generator"
            /\ req[r].result.generated_by # "openai"
            /\ req[r].result.cost = 0

\* C2 witness: every attempt of an invocation failed and it has ended.
C2_Witness ==
    \E r \in Reqs :
        /\ req[r].pc = "done"
        /\ req[r].n_calls = max_retries + 1
        /\ req[r].n_ok = 0
        /\ req[r].result = generate_enhanced_mock_roadmap

\* C3: CircuitBreaker.state changes only CLOSED->OPEN, OPEN->HALF_OPEN,
\* HALF_OPEN->CLOSED or HALF_OPEN->OPEN; in particular never OPEN->CLOSED.
C3_OnlyDefinedTransitions ==
    [][circuit_breaker'.state # circuit_breaker.state =>
         <<circuit_breaker.state, circuit_breaker'.state>> \in
             {<<"CLOSED", "OPEN">>, <<"OPEN", "HALF_OPEN">>,
              <<"HALF_OPEN", "CLOSED">>, <<"HALF_OPEN", "OPEN">>}]_vars

\* C4: a CLOSED breaker has fewer than failure_threshold failures; a
\* record_failure() on a CLOSED breaker adds one failure, leaves it CLOSED
\* below the threshold and opens it exactly when the threshold is reached;
\* and can_execute() on an OPEN breaker returns false, leaving it OPEN, as
\* long as no more than timeout has passed since last_failure_time.
C4_OpensAtThreshold ==
    [][/\ (last'.op = "record_failure" /\ circuit_breaker.state = "CLOSED") =>
             /\ circuit_breaker.failure_count < failure_threshold
             /\ circuit_breaker'.failure_count = circuit_breaker.failure_count + 1
             /\ (circuit_breaker'.failure_count < failure_threshold
                    => circuit_breaker'.state = "CLOSED")
             /\ (circuit_breaker'.failure_count = failure_threshold
                    => circuit_breaker'.state = "OPEN")
       /\ (/\ last'.op = "can_execute"
           /\ circuit_breaker.state = "OPEN"
           /\ now - circuit_breaker.last_failure_time <= timeout) =>
             /\ last'.ret = FALSE
             /\ circuit_breaker'.state = "OPEN"]_vars

\* C4 witness: the breaker was opened by the failure_threshold-th failure in
\* a row and can_execute() has returned false before the timeout.
C4_Witness ==
    /\ last.op = "can_execute"
    /\ last.ret = FALSE
    /\ circuit_breaker.state = "OPEN"
    /\ circuit_breaker.failure_count = failure_threshold
    /\ now - circuit_breaker.last_failure_time = timeout

\* C5: on an OPEN breaker can_execute() returns true iff more than timeout has
\* passed since last_failure_time, and moves the state to HALF_OPEN in that
\* case and only then; a record_success() on the HALF_OPEN breaker gives
\* CLOSED with failure_count 0.
C5_TimeoutRecovery ==
    [][/\ (last'.op = "can_execute" /\ circuit_breaker.state = "OPEN") =>
             /\ last'.ret = (now - circuit_breaker.last_failure_time > timeout)
             /\ circuit_breaker'.state =
                   IF now - circuit_breaker.last_failure_time > timeout
                   THEN "HALF_OPEN" ELSE "OPEN"
       /\ (last'.op = "record_success" /\ circuit_breaker.state = "HALF_OPEN") =>
             /\ circuit_breaker'.state = "CLOSED"
             /\ circuit_breaker'.failure_count = 0]_vars

\* C5 witness: a record_success() has closed a HALF_OPEN breaker.
C5_Witness ==
    /\ last.op = "record_success"
    /\ last.pre.state = "HALF_OPEN"
    /\ last.pre.failure_count >= failure_threshold
    /\ circuit_breaker.state = "CLOSED"

\* C6: a record_failure() on a HALF_OPEN breaker moves it to OPEN and sets
\* last_failure_time to the time of the call.
C6_FailedProbeReopens ==
    [][(last'.op = "record_failure" /\ circuit_breaker.state = "HALF_OPEN") =>
          /\ circuit_breaker'.state = "OPEN"
          /\ circuit_breaker'.last_failure_time = now]_vars

\* C6 witness: a record_failure() has re-opened a HALF_OPEN breaker at a
\* later time than the failure that had opened it.
C6_Witness ==
    /\ last.op = "record_failure"
    /\ last.pre.state = "HALF_OPEN"
    /\ circuit_breaker.state = "OPEN"
    /\ circuit_breaker.last_failure_time > last.pre.last_failure_time

\* C7: allow_call() keeps the timestamps less than time_window old, admits
\* iff fewer than max_calls of them remain, and records the current time
\* when it admits; and at no time do more than max_calls admitted calls lie
\* in the trailing time_window.
C7_SlidingWindow ==
    [][/\ last'.op = "allow_call" =>
             LET kept == SelectSeq(rate_limiter.calls,
                                   LAMBDA c : now - c < time_window)
             IN  /\ last'.ret = (Len(kept) < max_calls)
                 /\ rate_limiter'.calls =
                       IF Len(kept) < max_calls THEN Append(kept, now) ELSE kept
       /\ Cardinality({i \in DOMAIN rl_hist'.admitted :
                          now' - rl_hist'.admitted[i] < time_window}) <= max_calls]_vars

\* C7 witness: max_calls calls were admitted in the window and the next one
\* has been denied.
C7_Witness ==
    /\ last.op = "allow_call"
    /\ last.ret = FALSE
    /\ Len(rl_hist.admitted) = max_calls
    /\ Len(rate_limiter.calls) = max_calls

\* C8: an allow_call() made at least time_window after the oldest recorded
\* call is admitted.
C8_AdmissionResumes ==
    [][(/\ last'.op = "allow_call"
        /\ rate_limiter.calls # <<>>
        /\ now - SeqMin(rate_limiter.calls) >= time_window) => last'.ret = TRUE]_vars

\* C8 witness: the limiter was full and had denied a call, and the next call,
\* made when the oldest recorded call was time_window old, has been admitted.
C8_Witness ==
    /\ last.op = "allow_call"
    /\ last.ret = TRUE
    /\ rl_hist.after_denial
    /\ Len(last.pre.calls) = max_calls
    /\ now - SeqMin(last.pre.calls) = time_window

\* C9: a time_until_next_call() made right after a denied allow_call() (at
\* the same clock reading) returns d with 0 < d <= time_window; made any time
\* after the denial it returns 0 <= d <= time_window; in both cases the
\* allow_call() made exactly d after it, with no other allow_call() in
\* between, is admitted; with no recorded call time_until_next_call()
\* returns 0.
C9_ThrottleWaitSuffices ==
    [][/\ (last'.op = "time_until_next_call" /\ last.op = "allow_call" /\ ~last.ret) =>
             (0 < last'.ret /\ last'.ret <= time_window)
       /\ (last'.op = "time_until_next_call" /\ rl_hist.denied) =>
             (0 <= last'.ret /\ last'.ret <= time_window)
       /\ (last'.op = "time_until_next_call" /\ rate_limiter.calls = <<>>) =>
             last'.ret = 0
       /\ (/\ last'.op = "allow_call"
           /\ rl_hist.wait_at # NoTime
           /\ now = rl_hist.wait_at + rl_hist.wait) => last'.ret = TRUE]_vars

\* C9 witness: a call was denied, time_until_next_call() returned d > 0, and
\* the call made d later has been admitted.
C9_Witness ==
    /\ last.op = "allow_call"
    /\ last.ret = TRUE
    /\ rl_hist.resumed
    /\ Len(last.pre.calls) = max_calls

\* C10: can_make_request(estimated_cost) returns true iff current_cost, taken
\* as 0 when the day has rolled over, plus estimated_cost is at most
\* daily_limit; without a rollover it changes neither current_cost nor
\* request_count.
C10_BudgetCheck ==
    [][last'.op = "can_make_request" =>
          LET rolled == today > cost_tracker.last_reset
              spent == IF rolled THEN 0 ELSE cost_tracker.current_cost
          IN  /\ last'.ret = (spent + last'.by <= daily_limit)
              /\ (~rolled =>
                     /\ cost_tracker'.current_cost = cost_tracker.current_cost
                     /\ cost_tracker'.request_count = cost_tracker.request_count)]_vars

\* C10 witness: a request that takes the ledger exactly to daily_limit has
\* been permitted, on a day without rollover.
C10_Witness ==
    /\ last.op = "can_make_request"
    /\ last.ret = TRUE
    /\ last.pre.last_reset = today
    /\ last.pre.current_cost > 0
    /\ last.by > 0
    /\ last.pre.current_cost + last.by = daily_limit

RECURSIVE SumSeq(_)
SumSeq(q) == IF q = <<>> THEN 0 ELSE q[1] + SumSeq(Tail(q))

LedgerAccess == {"can_make_request", "record_request", "get_usage_stats"}

\* C11: within a calendar day current_cost is the sum of the costs given to
\* record_request and request_count is the number of those calls, and
\* get_usage_stats reports them with remaining_budget = daily_limit -
\* current_cost.
C11_LedgerSums ==
    [][/\ cost_tracker'.current_cost = SumSeq(ct_hist'.recorded)
       /\ cost_tracker'.request_count = Len(ct_hist'.recorded)
       /\ last'.op = "get_usage_stats" =>
             /\ last'.ret.current_cost = SumSeq(ct_hist'.recorded)
             /\ last'.ret.request_count = Len(ct_hist'.recorded)
             /\ last'.ret.remaining_budget = daily_limit - SumSeq(ct_hist'.recorded)]_vars

\* C11 witness: two different costs were recorded on one day and
\* get_usage_stats has reported their sum, their number and what is left.
C11_Witness ==
    /\ last.op = "get_usage_stats"
    /\ Len(ct_hist.recorded) = 2
    /\ ct_hist.recorded[1] > ct_hist.recorded[2]
    /\ ct_hist.recorded[2] > 0
    /\ last.ret.request_count = 2
    /\ last.ret.current_cost = ct_hist.recorded[1] + ct_hist.recorded[2]
    /\ last.ret.remaining_budget = daily_limit - last.ret.current_cost

C13_StatsOnlyObserve ==
    [][(/\ last'.op = "get_usage_stats"
        /\ today > cost_tracker.last_reset
        /\ cost_tracker.current_cost > 0) =>
          /\ last'.ret.current_cost = cost_tracker.current_cost
          /\ cost_tracker' = cost_tracker]_vars

\* The invocation has passed the budget check and has not yet recorded a cost.
PassedBudgetCheck(q) == q.pc \in {"breaker", "call", "inflight", "parse", "backoff"}

\* C14: the budget check and the recording of the cost are one critical
\* section: no two invocations are both past the budget check when the budget
\* has room for the estimated cost of only one of them, and current_cost
\* never exceeds daily_limit.
C14_BudgetCriticalSection ==
    /\ \A r1, r2 \in Reqs :
          (r1 # r2 /\ PassedBudgetCheck(req[r1]) /\ PassedBudgetCheck(req[r2])) =>
              cost_tracker.current_cost + 2 * DefaultEstimatedCost <= daily_limit
    /\ cost_tracker.current_cost <= daily_limit

\* How many times x occurs in the sequence q.
Count(q, x) == Cardinality({i \in DOMAIN q : q[i] = x})

\* C15: allow_call is atomic for concurrent callers: every admitted
\* timestamp that is still inside the window is in the limiter's call list,
\* and at most max_calls admitted calls lie in the trailing time_window.
C15_AtomicAllowCall ==
    /\ \A i \in DOMAIN rl_hist.admitted :
          Count(rate_limiter.calls, rl_hist.admitted[i]) >=
              Count(rl_hist.admitted, rl_hist.admitted[i])
    /\ Len(rl_hist.admitted) <= max_calls

\* C16: a generate_roadmap call with use_cache true that finds an entry for
\* its key ends at once returning the stored roadmap unchanged, with no
\* completion-service call, and leaves the limiter, the ledger, the breaker
\* and the cache as they were.
C16_CacheHitBypasses ==
    [][\A r \in Reqs :
          (/\ last'.op = "start"
           /\ last'.by = r
           /\ req'[r].use_cache
           /\ cache[req'[r].key] # NoRoadmap) =>
              /\ req'[r].pc = "done"
              /\ req'[r].ended = "returned"
              /\ req'[r].result = cache[req'[r].key]
              /\ req'[r].n_calls = 0
              /\ rate_limiter' = rate_limiter
              /\ cost_tracker' = cost_tracker
              /\ circuit_breaker' = circuit_breaker
              /\ cache' = cache]_vars

\* C16 witness: a call has been answered from the cache with a roadmap the
\* AI path had produced at a cost.
C16_Witness ==
    /\ last.op = "start"
    /\ last.by \in Reqs
    /\ req[last.by].pc = "done"
    /\ req[last.by].use_cache
    /\ req[last.by].n_calls = 0
    /\ req[last.by].result = cache[req[last.by].key]
    /\ req[last.by].result.generated_by = "openai"
    /\ req[last.by].result.cost > 0

\* C17: when a call with use_cache true has returned, the call with
\* use_cache true for the same key that directly follows it is answered with
\* the identical roadmap, whichever path served the first call.
C17_CacheIdempotent ==
    [][\A r \in Reqs :
          (/\ req[r].pc = "done"
           /\ req[r].use_cache
           /\ last.by = r
           /\ last'.op = "start"
           /\ last'.by = r
           /\ req'[r].use_cache
           /\ req'[r].key = req[r].key) =>
              /\ req'[r].pc = "done"
              /\ req'[r].result = req[r].result]_vars

\* C19: a generate_roadmap call that finds can_make_request() false ends at
\* once returning the FallbackGenerator result, with no completion-service
\* call and no attempt, and the breaker is left as it was.
C19_BudgetStopsRequest ==
    [][\A r \in Reqs :
          (/\ last'.op = "can_make_request"
           /\ last'.by = r
           /\ req[r].pc = "cost"
           /\ (IF today > cost_tracker.last_reset THEN 0 ELSE cost_tracker.current_cost)
                  + DefaultEstimatedCost > daily_limit) =>
              /\ req'[r].pc = "done"
              /\ req'[r].ended = "returned"
              /\ req'[r].result = generate_enhanced_mock_roadmap
              /\ req'[r].n_calls = 0
              /\ req'[r].attempt = 0
              /\ circuit_breaker' = circuit_breaker]_vars

\* C19 witness: the ledger is at daily_limit or above and a call has been
\* refused by the budget check and answered by the fallback.
C19_Witness ==
    /\ last.op = "can_make_request"
    /\ last.by \in Reqs
    /\ last.ret = FALSE
    /\ cost_tracker.current_cost >= daily_limit
    /\ req[last.by].pc = "done"
    /\ req[last.by].result = generate_enhanced_mock_roadmap

\* C20: a generate_roadmap call that finds the breaker OPEN before its
\* timeout ends at once returning the FallbackGenerator result, with no
\* completion-service call, and the breaker and the ledger are left as they
\* were (no success, failure or cost is recorded).
C20_OpenBreakerStopsRequest ==
    [][\A r \in Reqs :
          (/\ last'.op = "can_execute"
           /\ last'.by = r
           /\ req[r].pc = "breaker"
           /\ circuit_breaker.state = "OPEN"
           /\ now - circuit_breaker.last_failure_time <= timeout) =>
              /\ req'[r].pc = "done"
              /\ req'[r].ended = "returned"
              /\ req'[r].result = generate_enhanced_mock_roadmap
              /\ req'[r].n_calls = 0
              /\ circuit_breaker' = circuit_breaker
              /\ cost_tracker' = cost_tracker
              /\ ct_hist' = ct_hist]_vars

\* C20 witness: the breaker is OPEN and a call has been refused by it and
\* answered by the fallback.
C20_Witness ==
    /\ last.op = "can_execute"
    /\ last.by \in Reqs
    /\ last.ret = FALSE
    /\ circuit_breaker.state = "OPEN"
    /\ req[last.by].pc = "done"
    /\ req[last.by].n_calls = 0
    /\ req[last.by].result = generate_enhanced_mock_roadmap

\* Two texts that differ at most in letter case and surrounding whitespace.
SameText(x, y) == x.base = y.base

\* Two lists that differ at most in the order of their elements and in the
\* letter case and surrounding whitespace of the elements.
SameList(p, q) ==
    /\ Len(p) = Len(q)
    /\ \E f \in [DOMAIN p -> DOMAIN q] :
          /\ \A i, j \in DOMAIN p : i # j => f[i] # f[j]
          /\ \A i \in DOMAIN p : SameText(p[i], q[f[i]])

\* C18: two requests that differ only in the order of the elements of skills
\* and learning_goals, or only in letter case or surrounding whitespace of
\* domain, skill_level, time_availability, location and the entries of
\* skills and learning_goals, get the same cache key.
C18_KeyOfNormalizedRequest ==
    last.op = "cache_key" =>
        LET a == last.by[1]
            b == last.by[2]
        IN  (/\ SameText(a.domain, b.domain)
             /\ SameText(a.skill_level, b.skill_level)
             /\ SameText(a.time_availability, b.time_availability)
             /\ SameText(a.user_context.location, b.user_context.location)
             /\ SameList(a.user_context.skills, b.user_context.skills)
             /\ SameList(a.user_context.learning_goals, b.user_context.learning_goals))
            => last.ret[1] = last.ret[2]

(* ------------------------------------------------------------------------ *)
\* C21: the generated_by label of a returned roadmap identifies the path that
\* produced its modules: "openai" only when the modules come from the
\* structured (validated JSON) completion, "openai_fallback" when they come
\* from the parser's text extraction or its default modules, and
\* "enhanced_mock_generator" when they come from the fallback generator.
C21_LabelIdentifiesPath ==
    \A r \in Reqs :
        req[r].ended = "returned" =>
            LET roadmap == req[r].result IN
            /\ roadmap.generated_by = "openai" => roadmap.source = "structured"
            /\ roadmap.source \in {"heuristic", "default"} =>
                   roadmap.generated_by = "openai_fallback"
            /\ roadmap.source = "catalog" =>
                   roadmap.generated_by = "enhanced_mock_generator"

(* ------------------------------------------------------------------------ *)
\* C22: the response parser never fails: whatever the content of the
\* response, parsing yields a roadmap, which the invocation returns; parsing
\* never sends the invocation into a retry and never records a failure on
\* the breaker.
C22_ParserNeverFails ==
    [][\A r \in Reqs :
          (req[r].pc = "parse" /\ req'[r] # req[r]) =>
              /\ req'[r].pc = "done"
              /\ req'[r].ended = "returned"
              /\ req'[r].result.generated_by # "enhanced_mock_generator"
              /\ circuit_breaker' = circuit_breaker]_vars

(* ---------------- the fallback generator and the parser, in detail ------ *)
\* _generate_enhanced_mock_roadmap and _parse_and_validate_response as
\* functions of their arguments, with the module lists they build.

CatalogEntry(title, hours, difficulty) ==
    [title |-> title, hours |-> hours, difficulty |-> difficulty]

\* domain_modules: the catalogue of the fallback generator.
domain_modules ==
    [python |->
       << CatalogEntry("Python Programming Fundamentals", 25, "beginner"),
          CatalogEntry("Data Structures and Algorithms", 30, "intermediate"),
          CatalogEntry("Object-Oriented Programming", 20, "intermediate"),
          CatalogEntry("Web Development with Django/Flask", 35, "intermediate"),
          CatalogEntry("Data Science and Machine Learning", 40, "advanced"),
          CatalogEntry("Testing and Debugging", 15, "intermediate"),
          CatalogEntry("Deployment and DevOps", 20, "advanced") >>,
     javascript |->
       << CatalogEntry("JavaScript Fundamentals", 20, "beginner"),
          CatalogEntry("DOM Manipulation and Events", 15, "beginner"),
          CatalogEntry("Asynchronous JavaScript", 25, "intermediate"),
          CatalogEntry("Modern JavaScript (ES6+)", 20, "intermediate"),
          CatalogEntry("Frontend Framework (React/Vue)", 30, "intermediate"),
          CatalogEntry("Node.js and Backend Development", 25, "advanced"),
          CatalogEntry("Testing and Deployment", 15, "intermediate") >>,
     web_development |->
       << CatalogEntry("HTML & CSS Fundamentals", 20, "beginner"),
          CatalogEntry("Responsive Design and Flexbox/Grid", 15, "beginner"),
          CatalogEntry("JavaScript Basics", 25, "beginner"),
          CatalogEntry("Frontend Framework", 30, "intermediate"),
          CatalogEntry("Backend API Development", 25, "intermediate"),
          CatalogEntry("Database Design and Management", 20, "intermediate"),
          CatalogEntry("Deployment and DevOps", 15, "advanced") >>]

\* The modules made up for a domain that is not in the catalogue.
custom_modules(domain) ==
    << CatalogEntry(<<domain, "Fundamentals">>, 20, "beginner"),
       CatalogEntry(<<domain, "Core Concepts">>, 25, "intermediate"),
       CatalogEntry(<<domain, "Advanced Applications">>, 30, "advanced"),
       CatalogEntry(<<domain, "Professional Projects">>, 25, "advanced"),
       CatalogEntry(<<domain, "Best Practices">>, 15, "intermediate") >>

\* The domains a request can name: catalogue keys, other spellings of them,
\* and domains the catalogue does not have.
Domains == {"python", "Python", "javascript", "web_development", "Web Development", "Rust"}

\* domain.lower().replace(' ', '_') on these domains.
catalog_key(domain) ==
    CASE domain = "Python" -> "python"
      [] domain = "Web Development" -> "web_development"
      [] domain = "Rust" -> "rust"
      [] OTHER -> domain

\* domain_modules.get(key, custom modules).
modules_data(domain) ==
    LET key == catalog_key(domain) IN
    IF key \in DOMAIN domain_modules THEN domain_modules[key] ELSE custom_modules(domain)

\* skill_level is any string; the last one takes the else branch as "advanced" does.
SkillLevels == {"beginner", "intermediate", "advanced", "expert"}

\* Mutant: the else branch keeps the modules whose difficulty is the skill level.
difficulties_kept_exact(skill_level) ==
    CASE skill_level = "beginner" -> {"beginner", "intermediate"}
      [] skill_level = "intermediate" -> {"intermediate"}
      [] OTHER -> {skill_level}

\* The difficulties the skill-level filter keeps.
difficulties_kept(skill_level) ==
    CASE skill_level = "beginner" -> {"beginner", "intermediate"}
      [] skill_level = "intermediate" -> {"intermediate"}
      [] OTHER -> {"intermediate", "advanced"}

\* Mutant: the filter keeps the modules whose difficulty is the skill level.
filter_by_skill_level_eq(entries, skill_level) ==
    SelectSeq(entries, LAMBDA m : m.difficulty = skill_level)

\* modules_data after the filter by skill level.
filter_by_skill_level(entries, skill_level) ==
    SelectSeq(entries, LAMBDA m : m.difficulty \in difficulties_kept(skill_level))

TimeAvailabilities == {"part-time", "full-time", "casual"}

\* max(4, int(total_hours * weeks_per_hour)) with weeks_per_hour 0.2, 0.05
\* or 0.3: the quotients by 5, by 20 and of the triple by 10.
estimated_weeks(total_hours, time_availability) ==
    Max2(4, CASE time_availability = "part-time" -> total_hours \div 5
              [] time_availability = "full-time" -> total_hours \div 20
              [] OTHER -> (3 * total_hours) \div 10)

\* The module list of the roadmap, built from the filtered entries.
mock_modules(entries) ==
    [i \in 1..Len(entries) |->
        [id |-> i, name |-> entries[i].title, estimated_hours |-> entries[i].hours,
         difficulty |-> entries[i].difficulty, completed |-> FALSE]]

TotalHours(entries) == SumSeq([i \in 1..Len(entries) |-> entries[i].hours])

\* Mutant: the duration grows with the time of the call.
enhanced_mock_roadmap_aging(domain, skill_level, time_availability, t) ==
    LET entries == filter_by_skill_level(modules_data(domain), skill_level) IN
    [domain |-> domain, skill_level |-> skill_level,
     time_availability |-> time_availability,
     estimated_duration_weeks |-> estimated_weeks(TotalHours(entries), time_availability) + t,
     total_estimated_hours |-> TotalHours(entries),
     modules |-> mock_modules(entries),
     generated_by |-> "enhanced_mock_generator", generated_at |-> t, cost |-> 0]

\* _generate_enhanced_mock_roadmap(domain, skill_level, time_availability)
\* called when datetime.now() is t.
enhanced_mock_roadmap(domain, skill_level, time_availability, t) ==
    LET entries == filter_by_skill_level(modules_data(domain), skill_level) IN
    [domain |-> domain, skill_level |-> skill_level,
     time_availability |-> time_availability,
     estimated_duration_weeks |-> estimated_weeks(TotalHours(entries), time_availability),
     total_estimated_hours |-> TotalHours(entries),
     modules |-> mock_modules(entries),
     generated_by |-> "enhanced_mock_generator", generated_at |-> t, cost |-> 0]

MaxModules == 2
MaxSections == 2

\* A module object of a JSON roadmap, by what the parser looks at: it has a
\* title and scalar fields; it has no title and no name; its 'resources' is a
\* number; its resources are objects (a third level of braces); it has a
\* title, scalar fields and "completed": true.
ModuleShapes == {"titled", "untitled", "bad_resources", "nested", "completed"}

\* The length of a listed section after strip(): at most 10, or more.
SectionLengths == {5, 20}

\* The content of a response, by what the parser looks at: None or a text;
\* whether the text has a JSON object, and whether the object has the keys
\* 'domain' and 'modules'; the 'progress' of the object (0 when it has
\* none); the objects of the modules list; the numbered or bulleted sections
\* of the text.
ResponseTexts ==
    [is_none : BOOLEAN,
     json : {"absent", "no_keys", "roadmap"},
     progress : {0, 50},
     modules : SeqsUpTo(ModuleShapes, MaxModules),
     sections : SeqsUpTo(SectionLengths, MaxSections)]

\* json_pattern matches an object whose braces nest at most once: the root
\* object is a candidate unless a module holds objects of its own.
root_is_candidate(text) ==
    /\ text.json # "absent"
    /\ \A i \in 1..Len(text.modules) : text.modules[i] # "nested"

\* _validate_roadmap_structure on the root object.
validate_roadmap_structure(text) ==
    /\ text.json = "roadmap"
    /\ ~(Len(text.modules) = 0)
    /\ \A i \in 1..Len(text.modules) : text.modules[i] # "untitled"

\* A module of a returned roadmap: what it was built from, whether it has a
\* 'name', and its 'completed'.
ParsedModule(from, completed) == [from |-> from, has_name |-> TRUE, completed |-> completed]

\* module.setdefault('name', ...) and module.setdefault('completed', False)
\* on the modules of a validated object: a value that is there is kept.
setdefault_modules(modules) ==
    [i \in 1..Len(modules) |-> ParsedModule(modules[i], modules[i] = "completed")]

\* The modules built by _create_fallback_structure and _get_default_modules,
\* with 'completed': False.
built_modules(q) == [i \in 1..Len(q) |-> ParsedModule(q[i], FALSE)]

\* _get_default_modules: the six default modules.
get_default_modules ==
    << "Fundamentals", "Core Concepts", "Practical Applications",
       "Advanced Topics", "Project Development", "Best Practices" >>

\* sections[:7]
FirstSeven(q) == SubSeq(q, 1, IF Len(q) < 7 THEN Len(q) ELSE 7)

\* _create_fallback_structure: a module for each of the first seven sections
\* longer than 10, the default modules when there is none.
create_fallback_structure(text) ==
    LET modules == SelectSeq(FirstSeven(text.sections), LAMBDA n : n > 10) IN
    [tier |-> IF modules # <<>> THEN "heuristic" ELSE "default",
     modules |-> built_modules(IF modules # <<>> THEN modules ELSE get_default_modules),
     estimated_duration_weeks |-> 12, progress |-> 0,
     generated_by |-> "openai_fallback"]

\* The parser returned None.
ParsedNone ==
    [tier |-> "None", modules |-> <<>>, estimated_duration_weeks |-> 0,
     progress |-> 0, generated_by |-> "none"]

\* _parse_and_validate_response on a content.
parse_text(text) ==
    IF text.is_none
    THEN ParsedNone
    ELSE IF root_is_candidate(text) /\ validate_roadmap_structure(text)
         THEN IF \E i \in 1..Len(text.modules) : text.modules[i] = "bad_resources"
              THEN ParsedNone
              ELSE [tier |-> "structured", modules |-> setdefault_modules(text.modules),
                    estimated_duration_weeks |-> 0, progress |-> text.progress,
                    generated_by |-> "none"]
         ELSE create_fallback_structure(text)

\* The fallback generator is called twice with the same arguments, at t1 and at t2.
GenerateTwice ==
    /\ last.op = "init"
    /\ \E domain \in Domains, skill_level \in SkillLevels,
          time_availability \in TimeAvailabilities, t1, t2 \in 0..MaxTime :
          last' = [op |-> "fallback",
                   by |-> <<domain, skill_level, time_availability>>,
                   ret |-> <<enhanced_mock_roadmap(domain, skill_level, time_availability, t1),
                             enhanced_mock_roadmap(domain, skill_level, time_availability, t2)>>,
                   at |-> t2, pre |-> <<t1>>]
    /\ UNCHANGED <<now, today, rate_limiter, cost_tracker, circuit_breaker, cache, client, req, rl_hist, ct_hist, thr>>

\* The parser is called on a content.
ParseText ==
    /\ last.op = "init"
    /\ \E text \in ResponseTexts :
          last' = [op |-> "parse_text", by |-> text, ret |-> parse_text(text),
                   at |-> now, pre |-> <<>>]
    /\ UNCHANGED <<now, today, rate_limiter, cost_tracker, circuit_breaker, cache, client, req, rl_hist, ct_hist, thr>>

GenNext == GenerateTwice \/ ParseText

SpecGen == InitUnit /\ [][GenNext]_vars

(* ------------------------------------------------------------------------ *)
\* C23: every roadmap has at least one module: the roadmap the parser
\* returns from a structured completion, from text extraction or with its
\* default modules, and the roadmap of the fallback generator for every
\* domain, in the catalogue or not, and every skill level.
C23_AtLeastOneModule ==
    /\ last.op = "fallback" =>
          /\ Len(last.ret[1].modules) >= 1
          /\ Len(last.ret[2].modules) >= 1
    /\ (last.op = "parse_text" /\ last.ret # ParsedNone) => Len(last.ret.modules) >= 1

\* An unknown domain at an intermediate level, and a text whose only
\* section is too short, still give modules.
C23_Witness ==
    \/ /\ last.op = "fallback"
       /\ last.by[1] = "Rust" /\ last.by[2] = "intermediate"
       /\ Len(last.ret[1].modules) = 2
    \/ /\ last.op = "parse_text"
       /\ last.ret.tier = "default"
       /\ last.by.sections = <<5>>
       /\ Len(last.ret.modules) = 6

Cancel(r) ==
    /\ req[r].pc \notin {"idle", "done", "off"}
    /\ ~req[r].cancelled
    /\ req' = [req EXCEPT ![r].cancelled = TRUE]
    /\ last' = Op("cancel", r, FALSE, <<>>)
    /\ UNCHANGED <<now, today, rate_limiter, cost_tracker, circuit_breaker, cache, client, rl_hist, ct_hist, thr>>

CancelNext == StepOnce(1) \/ Cancel(1) \/ SleepTick

\* One invocation, whose caller may give up at any point of it.
SpecCancel == InitConc /\ [][CancelNext]_vars

(* ------------------------------------------------------------------------ *)
\* C25: once the deadline of the caller has expired, the invocation starts
\* no further completion call and records no cost.
C25_CancellationStops ==
    [][\A r \in Reqs :
          req[r].cancelled =>
              /\ req'[r].n_calls = req[r].n_calls
              /\ ct_hist'.recorded = ct_hist.recorded]_vars

(* ------------------------------ traffic -------------------------------- *)
\* One invocation on an engine that has served earlier requests; the starts
\* of the completion calls are observed.
InitTraffic == InitEngine(TRUE)

TrafficNext == StepOnce(1) \/ SleepTick

SpecTraffic == InitTraffic /\ [][TrafficNext]_vars

(* ------------------------------------------------------------------------ *)
\* C26: the number of completion calls started within any trailing
\* time_window never exceeds max_calls, whether a call is a first attempt, a
\* retry, or made after a throttle wait.
C26_OutboundTrafficBounded == Len(rl_hist.started) <= max_calls

(* ------------------------------------------------------------------------ *)
\* C27: no completion call is started while the breaker is OPEN: not on the
\* first attempt, and not on a retry that follows the failure which opened
\* the breaker.
C27_NoCallWhileOpen ==
    [][\A r \in Reqs :
          (req[r].pc = "call" /\ req'[r].pc = "inflight") =>
              circuit_breaker.state # "OPEN"]_vars

(* -------------------------------- probes -------------------------------- *)
\* The breaker of the engine opened at time 0; the admissions of the limiter
\* up to then have left the window, and `refused` requests were admitted by
\* the limiter and refused by the breaker at time `timeout`. Two invocations
\* arrive when the timeout is about to elapse or has elapsed.
InitProbe ==
    /\ now \in {timeout, timeout + 1}
    /\ today = 0
    /\ \E refused \in 0..1 :
          /\ rate_limiter = [calls |-> [i \in 1..refused |-> timeout]]
          /\ rl_hist = [NewHist EXCEPT !.admitted = [i \in 1..refused |-> timeout]]
    /\ cost_tracker = NewCostTracker(0)
    /\ circuit_breaker = [failure_count |-> failure_threshold,
                          last_failure_time |-> 0, state |-> "OPEN"]
    /\ cache = [k \in Keys |-> NoRoadmap]
    /\ client = TRUE
    /\ req = [r \in Reqs |-> NewReq]
    /\ ct_hist = NewLedgerHist(0)
    /\ thr = [t \in Thr |-> NewThread]
    /\ last = [op |-> "init", by |-> 0, ret |-> FALSE, at |-> 0, pre |-> <<>>]

SpecProbe == InitProbe /\ [][ConcNext]_vars

(* ------------------------------------------------------------------------ *)
\* C28: while the breaker is HALF_OPEN a single probe is permitted: between
\* the transition from OPEN to HALF_OPEN and the next record_success or
\* record_failure, can_execute() admits no request while another admitted
\* request has its attempt under way.
C28_SingleProbe ==
    [][\A r \in Reqs :
          (circuit_breaker.state = "HALF_OPEN"
              /\ req[r].pc = "breaker" /\ req'[r].pc = "call") =>
              \A o \in Reqs \ {r} : req[o].pc \notin {"call", "inflight", "backoff"}]_vars

(* ------------------------------------------------------------------------ *)
\* C29: the retry loop is bounded: configured with max_retries, one
\* invocation makes at most max_retries attempts; and after the last failed
\* attempt it returns without sleeping again.
C29_AttemptsBounded ==
    \A r \in Reqs :
        /\ req[r].n_calls <= max_retries
        /\ req[r].pc = "backoff" => req[r].n_calls < max_retries + 1

(* ------------------------------------------------------------------------ *)
\* C30: a failed attempt records at most one failure on the breaker, by
\* category: a rate-limit or timeout error on an attempt that is not the
\* last records none; any other error, and a response that cannot be
\* parsed, records exactly one on every attempt; the last attempt records
\* exactly one whatever the error.
C30_FailureRecordedByCategory ==
    [][\A r \in Reqs :
          LET recorded == circuit_breaker'.failure_count - circuit_breaker.failure_count
          IN  /\ (req[r].pc = "inflight" /\ last'.op = "raise" /\ last'.by = r) =>
                    recorded = IF last'.ret \in {"rate_limit", "timeout"}
                                  /\ req[r].attempt < max_retries
                               THEN 0 ELSE 1
              /\ (req[r].pc = "parse" /\ last'.op = "parse" /\ last'.by = r
                    /\ req'[r].result.generated_by # "openai") =>
                    recorded = 1]_vars

\* An invocation whose attempts all met a rate limit or a timeout has ended
\* with the fallback, and the breaker counts the one failure of its last attempt.
C30_Witness ==
    \E r \in Reqs :
        /\ last.op = "raise" /\ last.by = r /\ last.ret = "rate_limit"
        /\ req[r].pc = "done"
        /\ req[r].n_calls = max_retries + 1
        /\ req[r].n_ok = 0
        /\ req[r].result = generate_enhanced_mock_roadmap
        /\ circuit_breaker.failure_count = 1

(* ------------------------------------------------------------------------ *)
\* C31: an invocation calls record_request at most once, and exactly when it
\* returns a roadmap built from a completion it has just received: that
\* step ends the invocation, adds the cost of the returned roadmap to
\* current_cost and 1 to request_count; no other step of an invocation (a
\* failed attempt, a cache hit, a fallback return) adds to either.
C31_RecordsCostOncePerSuccess ==
    [][\A r \in Reqs :
          req'[r] # req[r] =>
              LET rolled == today > cost_tracker.last_reset
                  cost0 == IF rolled THEN 0 ELSE cost_tracker.current_cost
                  count0 == IF rolled THEN 0 ELSE cost_tracker.request_count
                  built == /\ req[r].pc = "parse"
                           /\ req'[r].pc = "done"
                           /\ req'[r].result.generated_by = "openai"
              IN  IF built
                  THEN /\ cost_tracker'.current_cost = cost0 + req'[r].result.cost
                       /\ cost_tracker'.request_count = count0 + 1
                  ELSE /\ cost_tracker'.current_cost \in {cost_tracker.current_cost, cost0}
                       /\ cost_tracker'.request_count \in {cost_tracker.request_count, count0}]_vars

\* An invocation has returned a roadmap of cost 2 built from the completion
\* of its second attempt, and the ledger holds that one request.
C31_Witness ==
    \E r \in Reqs :
        /\ last.op = "parse" /\ last.by = r
        /\ req[r].pc = "done"
        /\ req[r].result.generated_by = "openai"
        /\ req[r].result.cost = 2
        /\ req[r].n_calls = 2
        /\ cost_tracker.current_cost = 2
        /\ cost_tracker.request_count = 1

(* ------------------------------------------------------------------------ *)
\* C32: on an engine without a completion client every invocation is served
\* by the fallback generator with cost 0, and no step of it changes
\* current_cost or request_count of the ledger, or state or failure_count of
\* the breaker, which stays CLOSED.
C32_NoClientFrame ==
    [][\A r \in Reqs :
          (~client /\ req'[r] # req[r]) =>
              /\ cost_tracker'.current_cost = cost_tracker.current_cost
              /\ cost_tracker'.request_count = cost_tracker.request_count
              /\ circuit_breaker'.state = circuit_breaker.state
              /\ circuit_breaker'.failure_count = circuit_breaker.failure_count
              /\ circuit_breaker'.state = "CLOSED"
              /\ req'[r].pc = "done" =>
                    /\ req'[r].result.generated_by = "enhanced_mock_generator"
                    /\ req'[r].result.cost = 0]_vars

\* An invocation without a client has passed the three checks, after
\* midnight, and returned the fallback.
C32_Witness ==
    \E r \in Reqs :
        /\ ~client
        /\ last.op = "can_execute" /\ last.by = r /\ last.ret = TRUE
        /\ req[r].pc = "done"
        /\ req[r].n_calls = 0
        /\ req[r].result = generate_enhanced_mock_roadmap
        /\ ct_hist.resets = 1
        /\ circuit_breaker = NewCircuitBreaker

(* ------------------------------------------------------------------------ *)
\* C33: for a content that is one well-formed JSON roadmap in the format of
\* the prompt, whose modules hold resource, exercise and project objects,
\* the parser returns the modules of that object through the structured
\* tier, not extracted or default modules.
C33_SchemaJsonIsDecoded ==
    (/\ last.op = "parse_text"
     /\ ~last.by.is_none
     /\ last.by.json = "roadmap"
     /\ last.by.sections = <<>>
     /\ Len(last.by.modules) >= 1
     /\ \A i \in 1..Len(last.by.modules) : last.by.modules[i] = "nested")
    => /\ last.ret.tier = "structured"
       /\ last.ret.modules = setdefault_modules(last.by.modules)

(* ------------------------------------------------------------------------ *)
\* C34: every roadmap the parser returns is in its creation state, whatever
\* the content: its progress is 0, and every module has a name and is not
\* completed.
C34_ParsedRoadmapIsNew ==
    (last.op = "parse_text" /\ last.ret # ParsedNone) =>
        /\ last.ret.progress = 0
        /\ \A i \in 1..Len(last.ret.modules) :
              /\ last.ret.modules[i].has_name
              /\ ~last.ret.modules[i].completed

(* ------------------------------------------------------------------------ *)
\* C35: the fallback generator keeps exactly the catalogue entries whose
\* difficulty suits the skill level (beginner: beginner and intermediate;
\* intermediate: intermediate; advanced: intermediate and advanced), in the
\* order of the catalogue, numbered 1..n; a domain that is not in the
\* catalogue has the five generic entries.
C35_FilterBySkillLevel ==
    (last.op = "fallback" /\ last.by[2] \in {"beginner", "intermediate", "advanced"}) =>
        LET catalogue == modules_data(last.by[1])
            wanted == CASE last.by[2] = "beginner" -> {"beginner", "intermediate"}
                        [] last.by[2] = "intermediate" -> {"intermediate"}
                        [] last.by[2] = "advanced" -> {"intermediate", "advanced"}
            kept == {i \in 1..Len(catalogue) : catalogue[i].difficulty \in wanted}
            Nth(j) == CHOOSE i \in kept : Cardinality({k \in kept : k <= i}) = j
            modules == last.ret[1].modules
        IN  /\ Len(modules) = Cardinality(kept)
            /\ \A j \in 1..Len(modules) :
                  /\ modules[j].id = j
                  /\ modules[j].name = catalogue[Nth(j)].title
                  /\ modules[j].difficulty = catalogue[Nth(j)].difficulty
                  /\ modules[j].estimated_hours = catalogue[Nth(j)].hours
            /\ catalog_key(last.by[1]) \notin {"python", "javascript", "web_development"} =>
                  /\ Len(catalogue) = 5
                  /\ catalogue[1].title = <<last.by[1], "Fundamentals">>

\* An advanced Python roadmap: six of the seven entries, the first one dropped.
C35_Witness ==
    /\ last.op = "fallback"
    /\ last.by[1] = "Python" /\ last.by[2] = "advanced"
    /\ Len(last.ret[1].modules) = 6
    /\ last.ret[1].modules[1].id = 1
    /\ last.ret[1].modules[1].name = "Data Structures and Algorithms"
    /\ last.ret[1].modules[6].name = "Deployment and DevOps"

(* ------------------------------------------------------------------------ *)
\* C36: in every state of the breaker reached by can_execute, record_success
\* and record_failure calls, failure_count is below failure_threshold exactly
\* when the state is CLOSED.
C36_CountBelowThresholdIffClosed ==
    (circuit_breaker.failure_count < failure_threshold) <=> (circuit_breaker.state = "CLOSED")

\* A probe has been admitted: the breaker is HALF_OPEN with its count at the
\* threshold or above.
C36_Witness ==
    /\ last.op = "can_execute" /\ last.ret = TRUE
    /\ circuit_breaker.state = "HALF_OPEN"
    /\ circuit_breaker.failure_count > failure_threshold

(* ------------------------------------------------------------------------ *)
\* C37: an attempt reports one outcome to the breaker: once record_success
\* has been called for an attempt, no failure is recorded for that attempt.
C37_OneOutcomePerAttempt ==
    [][\A r \in Reqs :
          (req[r].pc = "parse" /\ req[r].n_ok >= 1 /\ req'[r] # req[r]) =>
              /\ circuit_breaker'.failure_count <= circuit_breaker.failure_count
              /\ circuit_breaker'.last_failure_time = circuit_breaker.last_failure_time]_vars

InitRecover ==
    \E prior \in 0..(daily_limit - 1) :
        /\ now = 0
        /\ today = 0
        /\ rate_limiter = NewRateLimiter
        /\ cost_tracker = [current_cost |-> prior, request_count |-> prior, last_reset |-> 0]
        /\ circuit_breaker = [failure_count |-> failure_threshold,
                              last_failure_time |-> 0, state |-> "OPEN"]
        /\ cache = [k \in Keys |-> NoRoadmap]
        /\ client = TRUE
        /\ req = [r \in Reqs |-> IF r = 1 THEN NewReq ELSE [NewReq EXCEPT !.pc = "off"]]
        /\ rl_hist = NewHist
        /\ ct_hist = [NewLedgerHist(0) EXCEPT !.recorded = [i \in 1..prior |-> 1]]
        /\ thr = [t \in Thr |-> NewThread]
        /\ last = [op |-> "init", by |-> 0, ret |-> FALSE, at |-> 0, pre |-> <<>>]

\* Lines 175-177 and the sleeps of the except clauses beyond the range of the
\* clock: now = MaxTime stands for every later time, so a time.sleep() that
\* ends after MaxTime returns with the clock reading MaxTime.
ThrottlePastHorizon(r) ==
    /\ req[r].pc = "throttle_sleep"
    /\ now = MaxTime
    /\ req[r].wake > MaxTime
    /\ req' = [req EXCEPT ![r].pc = "cost", ![r].wake = 0]
    /\ last' = Op("throttle_wake", r, FALSE, <<>>)
    /\ UNCHANGED <<now, today, rate_limiter, cost_tracker, circuit_breaker, cache, client, rl_hist, ct_hist, thr>>

BackoffPastHorizon(r) ==
    /\ req[r].pc = "backoff"
    /\ now = MaxTime
    /\ req[r].wake > MaxTime
    /\ req' = [req EXCEPT ![r] =
                  IF @.attempt + 1 < max_retries + 1
                  THEN [@ EXCEPT !.pc = "call", !.attempt = @ + 1, !.wake = 0]
                  ELSE Ended(@, NoRoadmap, "returned_none")]
    /\ last' = Op("backoff_wake", r, FALSE, <<>>)
    /\ UNCHANGED <<now, today, rate_limiter, cost_tracker, circuit_breaker, cache, client, rl_hist, ct_hist, thr>>

\* One step of an invocation when every completion call returns a completion
\* (CallRaises is left out); a finished invocation is followed by the next.
StepServed(r) ==
    \/ Start(r) \/ RateLimitCheck(r) \/ ThrottleWait(r) \/ ThrottleWake(r)
    \/ ThrottlePastHorizon(r)
    \/ CostCheck(r) \/ BreakerCheck(r) \/ CallStart(r) \/ CallReturns(r)
    \/ ParseResponse(r) \/ BackoffWake(r) \/ BackoffPastHorizon(r)

RecoverNext == StepServed(1) \/ Tick \/ NewDay

\* Requests keep arriving and running, and time advances.
SpecRecover ==
    /\ InitRecover
    /\ [][RecoverNext]_vars
    /\ WF_req(StepServed(1))
    /\ WF_now(Tick)
    /\ WF_today(NewDay)

\* The first half of the recovery: from OPEN the breaker comes to CLOSED with
\* failure_count 0, and once CLOSED it admits every request that reaches it.
ProbeClosesBreaker ==
    /\ (circuit_breaker.state = "OPEN") ~>
          (circuit_breaker.state = "CLOSED" /\ circuit_breaker.failure_count = 0)
    /\ [](circuit_breaker.state = "CLOSED" =>
             [](/\ circuit_breaker.state = "CLOSED"
                /\ last.op = "can_execute" => last.ret))

(* ------------------------------------------------------------------------ *)
\* C39: the breaker recovers: when it is OPEN and every completion call
\* succeeds, while requests keep arriving and time advances, a request is
\* eventually admitted as a probe and the breaker returns to CLOSED with
\* failure_count 0; every request the CLOSED breaker admits after that, and
\* which calls the completion service, is served by the AI path and not by
\* the fallback.
C39_BreakerRecovers ==
    /\ ProbeClosesBreaker
    /\ []((circuit_breaker.state = "CLOSED" /\ last.op = "can_execute") =>
             []((req[1].pc = "done" /\ req[1].n_calls > 0) =>
                    req[1].result.generated_by = "openai"))


=============================================================================
